---- MODULE Spec2Model ----
(***************************************************************************)
(* Model of app.py, the single-page CKD hospital-risk calculator.          *)
(*                                                                         *)
(* The Streamlit script is executed from top to bottom once per user       *)
(* interaction.  One action of the model is one interaction: the script    *)
(* run it triggers and, when that run ends in st.rerun(), the run that     *)
(* follows it.  What each run did is recorded in `runs`.                   *)
(*                                                                         *)
(* Numbers.  Intercepts, weights and feature values are integers (log-odds *)
(* in whole units), NaN is carried explicitly.  The double returned by     *)
(* 1.0 / (1.0 + math.exp(-eta)) is identified by its rank `q` among the    *)
(* values the expression takes on whole eta: the values are pairwise       *)
(* different and increasing for -ExpOverflowArg < eta < SatEta, the        *)
(* expression is exactly 1.0 from SatEta on, and math.exp raises           *)
(* OverflowError when its argument reaches ExpOverflowArg.                 *)
(***************************************************************************)
EXTENDS Integers, Sequences, FiniteSets, TLC

VARIABLES
    file,           \* content of data/model_coeffs.json
    cache,          \* the st.cache_data entry of load_cfg
    session_state,  \* st.session_state, a dict
    primary_ckd,    \* the value held by the eligibility radio widget
    runs            \* the script runs of the last interaction, oldest first

vars == <<file, cache, session_state, primary_ckd, runs>>

----------------------------------------------------------------------------
(* Bounds of the model *)

MaxW == 1          \* weights range over -MaxW..MaxW
MaxX == 1          \* feature values passed to predict range over 0..MaxX
MaxBoxes == 1      \* boxes that get ticked in the session flow (the first ones)

(* Constants of the program and of its arithmetic *)

ExpOverflowArg == 710   \* least whole x for which math.exp(x) raises
SatEta == 37            \* least whole eta for which the quotient is 1.0
AgeMin == 18
AgeMax == 120
AgeCut == 70
WarmFirst == 3
WarmLast == 8

----------------------------------------------------------------------------
(* Dicts are functions; dict.get and item assignment *)

EmptyDict == [k \in {} |-> TRUE]

Get(d, k, default) == IF k \in DOMAIN d THEN d[k] ELSE default

Put(d, k, v) == [x \in (DOMAIN d) \cup {k} |-> IF x = k THEN v ELSE d[x]]

(* JSON scalars found in a numeric field, and Python floats *)

Num(n) == [t |-> "num", n |-> n, s |-> ""]
Str(s) == [t |-> "str", n |-> 0, s |-> s]

Fl(v) == [nan |-> FALSE, v |-> v]
NaN == [nan |-> TRUE, v |-> 0]

\* float(x): a number converts, the string "nan" parses to NaN, any other
\* string raises ValueError
float(x) ==
    IF x.t = "num" THEN [ok |-> TRUE, val |-> Fl(x.n)]
    ELSE IF x.s = "nan" THEN [ok |-> TRUE, val |-> NaN]
    ELSE [ok |-> FALSE, val |-> NaN]

FAdd(a, b) == IF a.nan \/ b.nan THEN NaN ELSE Fl(a.v + b.v)
FMul(a, b) == IF a.nan \/ b.nan THEN NaN ELSE Fl(a.v * b.v)

(* The returned probability: NaN, or the rank q of the double *)

P(q) == [nan |-> FALSE, q |-> q]
PNaN == [nan |-> TRUE, q |-> 0]
NoP == [nan |-> TRUE, q |-> -1]    \* nothing returned

\* 1.0 / (1.0 + math.exp(-eta))
Sigmoid(eta) ==
    IF eta.nan THEN [st |-> "ok", p |-> PNaN]
    ELSE IF -eta.v >= ExpOverflowArg THEN [st |-> "OverflowError", p |-> NoP]
    ELSE [st |-> "ok", p |-> P(IF eta.v >= SatEta THEN SatEta ELSE eta.v)]

----------------------------------------------------------------------------
(* Feature names *)

\* (label, key) pairs
COMORB_LIST ==
    << << "Neoplasms (C00-D49)", "comorb_neoplasm" >>,
       << "Blood/immune (D50-D89)", "comorb_blood" >>,
       << "Endocrine/metabolic (E00-E89)", "comorb_endocrine" >>,
       << "Circulatory (I00-I99)", "comorb_circulatory" >>,
       << "Respiratory (J00-J99)", "comorb_respiratory" >>,
       << "Digestive (K00-K95)", "comorb_digestive" >> >>

ComorbKeys == {COMORB_LIST[i][2] : i \in 1..Len(COMORB_LIST)}

\* iteration order of the keys of a dict
KeyOrder ==
    << "female", "age_ge70", "scheduled_admission", "warm_month" >>
    \o [i \in 1..Len(COMORB_LIST) |-> COMORB_LIST[i][2]] \o << "bmi" >>

Keys(d) == SelectSeq(KeyOrder, LAMBDA k : k \in DOMAIN d)

----------------------------------------------------------------------------
(* predict *)

\* variant of Term: a key X lacks counts as 1
TermAbsentCountsAsOne(coeffs, X, k) ==
    LET w == float(Get(coeffs, k, Num(0))) IN
    [ok |-> w.ok, val |-> FMul(w.val, Fl(Get(X, k, 1)))]

\* one term of the generator of line 33:
\* float(spec["coeffs"].get(k, 0.0)) * float(X.get(k, 0.0))
Term(coeffs, X, k) ==
    LET w == float(Get(coeffs, k, Num(0))) IN
    [ok |-> w.ok, val |-> FMul(w.val, Fl(Get(X, k, 0)))]

\* the generator as sum() consumes it: one term per key of spec["coeffs"],
\* in order, stopping at the first term that raises
RECURSIVE SumTerms(_, _, _, _, _)
SumTerms(coeffs, X, keys, acc, n) ==
    IF keys = << >> THEN [st |-> "ok", sum |-> acc, terms |-> n]
    ELSE LET t == Term(coeffs, X, Head(keys)) IN
         IF ~t.ok THEN [st |-> "ValueError", sum |-> acc, terms |-> n]
         ELSE SumTerms(coeffs, X, Tail(keys), FAdd(acc, t.val), n + 1)

Raised(e, n) == [st |-> e, eta |-> NaN, p |-> NoP, terms |-> n]

\* variant of predict: an unknown outcome falls back on an empty model
predictDefaultModel(cfg, outcome, X) ==
    LET known == outcome \in DOMAIN cfg.outcomes
        spec == IF known THEN cfg.outcomes[outcome]
                ELSE [intercept |-> Num(0), coeffs |-> EmptyDict]
        b0 == float(spec.intercept)
        s == SumTerms(spec.coeffs, X, Keys(spec.coeffs), Fl(0), 0)
        sg == Sigmoid(FAdd(b0.val, s.sum))
    IN  IF ~b0.ok THEN Raised("ValueError", 0)
        ELSE IF s.st # "ok" THEN Raised(s.st, s.terms)
        ELSE [st |-> sg.st, eta |-> FAdd(b0.val, s.sum), p |-> sg.p,
              terms |-> s.terms]

\* lines 29-35; the table is the module-level cfg
predict(cfg, outcome, X) ==
    IF outcome \notin DOMAIN cfg.outcomes THEN Raised("KeyError", 0)
    ELSE LET spec == cfg.outcomes[outcome]
             b0 == float(spec.intercept)
         IN  IF ~b0.ok THEN Raised("ValueError", 0)
             ELSE LET s == SumTerms(spec.coeffs, X, Keys(spec.coeffs),
                                    Fl(0), 0)
                      eta == FAdd(b0.val, s.sum)
                      sg == Sigmoid(eta)
                  IN  IF s.st # "ok" THEN Raised(s.st, s.terms)
                      ELSE [st |-> sg.st, eta |-> eta, p |-> sg.p,
                            terms |-> s.terms]

----------------------------------------------------------------------------
(* load_cfg under st.cache_data *)

NoCfg == [outcomes |-> EmptyDict]
NoCache == [hit |-> FALSE, val |-> NoCfg]

Missing == [kind |-> "missing", doc |-> NoCfg]
NotJson == [kind |-> "notjson", doc |-> NoCfg]
Json(doc) == [kind |-> "json", doc |-> doc]

\* variant of load_cfg: a missing file yields an empty table
load_cfgNoExistsCheck(f, c) ==
    IF c.hit THEN [st |-> "ok", cfg |-> c.val, cache |-> c]
    ELSE IF f.kind = "notjson"
    THEN [st |-> "JSONDecodeError", cfg |-> NoCfg, cache |-> c]
    ELSE [st |-> "ok", cfg |-> f.doc, cache |-> [hit |-> TRUE, val |-> f.doc]]

\* a cached value is returned without running the body; the body stores
\* its value only when it returns
load_cfg(f, c) ==
    IF c.hit THEN [st |-> "ok", cfg |-> c.val, cache |-> c]
    ELSE IF f.kind = "missing"
    THEN [st |-> "stop", cfg |-> NoCfg, cache |-> c]
    ELSE IF f.kind = "notjson"
    THEN [st |-> "JSONDecodeError", cfg |-> NoCfg, cache |-> c]
    ELSE [st |-> "ok", cfg |-> f.doc, cache |-> [hit |-> TRUE, val |-> f.doc]]

----------------------------------------------------------------------------
(* The form and the mapping of its widgets to model features *)

months ==
    << "January", "February", "March", "April", "May", "June", "July",
       "August", "September", "October", "November", "December" >>

\* list.index, 0-based
index(seq, x) == (CHOOSE i \in 1..Len(seq) : seq[i] = x) - 1

age_options == AgeMin..AgeMax

Sexes == {"Female", "Male"}
AdmissionTypes == {"Emergency", "Scheduled"}
MonthNames == {months[i] : i \in 1..Len(months)}
Answers == {"Yes", "No / Unsure"}

\* the values of the widgets of a run
Ui(primary, submitted, new_calc, sex, age, admission_type, month_name, cb) ==
    [primary_ckd |-> primary, submitted |-> submitted, new_calc |-> new_calc,
     sex |-> sex, age |-> age, admission_type |-> admission_type,
     month_name |-> month_name, cb |-> cb]

NoBox == [k \in ComorbKeys |-> FALSE]

\* widget values of a run in which the form was not filled in
Idle(primary) ==
    Ui(primary, FALSE, FALSE, "Female", 65, "Emergency", "January", NoBox)

\* comorb[key] = int(st.checkbox(label, key=f"cb_{key}"))
comorb(ui) == [k \in ComorbKeys |-> IF ui.cb[k] THEN 1 ELSE 0]

\* {**a, **b}
Merge(a, b) ==
    [k \in (DOMAIN a) \cup (DOMAIN b) |-> IF k \in DOMAIN b THEN b[k] ELSE a[k]]

\* variant of features: the warm months taken one month late
featuresWarmShifted(ui) ==
    LET admission_month == index(months, ui.month_name) + 1 IN
    Merge([female |-> IF ui.sex = "Female" THEN 1 ELSE 0,
           age_ge70 |-> IF ui.age >= AgeCut THEN 1 ELSE 0,
           scheduled_admission |->
               IF ui.admission_type = "Scheduled" THEN 1 ELSE 0,
           warm_month |->
               IF admission_month \in (WarmFirst + 1)..(WarmLast + 1)
               THEN 1 ELSE 0],
          comorb(ui))

\* lines 169-176
features(ui) ==
    LET admission_month == index(months, ui.month_name) + 1 IN
    Merge([female |-> IF ui.sex = "Female" THEN 1 ELSE 0,
           age_ge70 |-> IF ui.age >= AgeCut THEN 1 ELSE 0,
           scheduled_admission |->
               IF ui.admission_type = "Scheduled" THEN 1 ELSE 0,
           warm_month |->
               IF admission_month \in WarmFirst..WarmLast THEN 1 ELSE 0],
          comorb(ui))

\* the labels of the selected boxes, in the order of COMORB_LIST; joined
\* for display, "None" when there is none
selected_comorb(ui) ==
    LET sel == SelectSeq(COMORB_LIST, LAMBDA lk : Get(comorb(ui), lk[2], 0) # 0)
        labels == [i \in 1..Len(sel) |-> sel[i][1]]
    IN  IF labels = << >> THEN << "None" >> ELSE labels

\* lines 180-188
input_summary(ui) ==
    [Sex |-> ui.sex, Age |-> ui.age, AdmissionType |-> ui.admission_type,
     AdmissionMonth |-> ui.month_name, Comorbidities |-> selected_comorb(ui)]

----------------------------------------------------------------------------
(* One run of the script *)

\* what a run did: the outcome of load_cfg, the view taken, the outcome of
\* the gate, whether the form was rendered, the st.error messages, the
\* feature vectors built, the calls of predict, the session keys assigned,
\* whether the session was cleared, the metrics displayed, and how it ended
BaseLog ==
    [load |-> "ok", view |-> "none", gate |-> "none", form |-> FALSE,
     errors |-> << >>, features |-> << >>, calls |-> << >>, wrote |-> {},
     cleared |-> FALSE, shown |-> << >>, end |-> "done"]

Log(ui) == [ui |-> ui] @@ BaseLog

Call(outcome, X, ret) == [outcome |-> outcome, X |-> X, ret |-> ret]

Out(c, ss, log) == [cache |-> c, ss |-> ss, log |-> log]

\* variant of Gate: the answer is not looked at
GateNeverStops(primary) == FALSE

\* lines 119-123: True when the run must stop
Gate(primary) == primary # "Yes"

\* variant of Submitted: show_results is set before the predictions are made
SubmitStoresBeforePredict(cfg, c, ss, ui, log) ==
    LET f == features(ui)
        ss2 == Put(ss, "input_summary", input_summary(ui))
        d == predict(cfg, "death_in_hospital", f)
        l == predict(cfg, "prolonged_los", f)
        ss3 == Put(ss2, "show_results", TRUE)
        lg == [log EXCEPT !.features = << f >>]
    IN  IF d.st # "ok"
        THEN Out(c, ss3,
                 [lg EXCEPT !.calls = << Call("death_in_hospital", f, d) >>,
                            !.wrote = @ \cup {"input_summary", "show_results"},
                            !.end = d.st])
        ELSE IF l.st # "ok"
        THEN Out(c, ss3,
                 [lg EXCEPT !.calls = << Call("death_in_hospital", f, d),
                                         Call("prolonged_los", f, l) >>,
                            !.wrote = @ \cup {"input_summary", "show_results"},
                            !.end = l.st])
        ELSE Out(c, Put(ss3, "results", [death |-> d.p, los |-> l.p]),
                 [lg EXCEPT !.calls = << Call("death_in_hospital", f, d),
                                         Call("prolonged_los", f, l) >>,
                            !.wrote = @ \cup {"input_summary", "results",
                                              "show_results"},
                            !.end = "rerun"])

\* lines 167-196, the body of "if submitted": an exception raised by predict
\* ends the run with what was assigned before it
Submitted(cfg, c, ss, ui, log) ==
    LET f == features(ui)
        ss2 == Put(ss, "input_summary", input_summary(ui))
        d == predict(cfg, "death_in_hospital", f)
        l == predict(cfg, "prolonged_los", f)
        lg == [log EXCEPT !.features = << f >>,
                          !.wrote = @ \cup {"input_summary"}]
    IN  IF d.st # "ok"
        THEN Out(c, ss2,
                 [lg EXCEPT !.calls = << Call("death_in_hospital", f, d) >>,
                            !.end = d.st])
        ELSE IF l.st # "ok"
        THEN Out(c, ss2,
                 [lg EXCEPT !.calls = << Call("death_in_hospital", f, d),
                                         Call("prolonged_los", f, l) >>,
                            !.end = l.st])
        ELSE Out(c,
                 Put(Put(ss2, "results", [death |-> d.p, los |-> l.p]),
                     "show_results", TRUE),
                 [lg EXCEPT !.calls = << Call("death_in_hospital", f, d),
                                         Call("prolonged_los", f, l) >>,
                            !.wrote = @ \cup {"results", "show_results"},
                            !.end = "rerun"])

\* lines 114-196
FormView(cfg, c, ss, ui, log) ==
    IF Gate(ui.primary_ckd)
    THEN Out(c, ss, [log EXCEPT !.view = "form", !.gate = "stop",
                                !.errors = << "not primary CKD" >>,
                                !.end = "stop"])
    ELSE LET lg == [log EXCEPT !.view = "form", !.gate = "pass",
                               !.form = TRUE]
         IN  IF ui.submitted THEN Submitted(cfg, c, ss, ui, lg)
             ELSE Out(c, ss, lg)

\* a displayed metric: r.get(name, 0.0)
Metric(r, name) ==
    IF name \in DOMAIN r THEN [fallback |-> FALSE, p |-> r[name]]
    ELSE [fallback |-> TRUE, p |-> NoP]

Opt(d, k) == IF k \in DOMAIN d THEN << d[k] >> ELSE << >>

\* variant of ResultsView: "New calculation" drops only the show_results flag
ResultsViewKeepsResults(c, ss, ui, log) ==
    LET r == Get(ss, "results", EmptyDict)
        lg == [log EXCEPT !.view = "results",
                          !.shown = << [death |-> Metric(r, "death"),
                                        los |-> Metric(r, "los"),
                                        inputs |-> Opt(ss, "input_summary")] >>]
    IN  IF ui.new_calc
        THEN Out(c, [k \in (DOMAIN ss) \ {"show_results"} |-> ss[k]],
                 [lg EXCEPT !.cleared = TRUE, !.end = "rerun"])
        ELSE Out(c, ss, lg)

\* lines 197-222
ResultsView(c, ss, ui, log) ==
    LET r == Get(ss, "results", EmptyDict)
        lg == [log EXCEPT !.view = "results",
                          !.shown = << [death |-> Metric(r, "death"),
                                        los |-> Metric(r, "los"),
                                        inputs |-> Opt(ss, "input_summary")] >>]
    IN  IF ui.new_calc
        THEN Out(c, EmptyDict, [lg EXCEPT !.cleared = TRUE, !.end = "rerun"])
        ELSE Out(c, ss, lg)

\* the whole script: lines 26, 110-111, then one of the two views
Script(f, c, ss, ui) ==
    LET ld == load_cfg(f, c) IN
    IF ld.st # "ok"
    THEN Out(ld.cache, ss,
             [Log(ui) EXCEPT !.load = ld.st, !.end = ld.st,
                             !.errors = IF ld.st = "stop"
                                        THEN << "Missing file" >> ELSE << >>])
    ELSE LET fresh == "show_results" \notin DOMAIN ss
             ss1 == IF fresh THEN Put(ss, "show_results", FALSE) ELSE ss
             lg == [Log(ui) EXCEPT
                       !.wrote = IF fresh THEN {"show_results"} ELSE {}]
         IN  IF ~ss1["show_results"]
             THEN FormView(ld.cfg, ld.cache, ss1, ui, lg)
             ELSE ResultsView(ld.cache, ss1, ui, lg)

\* an interaction: the run it triggers, and the run st.rerun() starts, in
\* which no button is down
Interact(ss, ui) ==
    \E r1 \in {Script(file, cache, ss, ui)} :
        \E r2 \in {IF r1.log.end = "rerun"
                    THEN Script(file, r1.cache, r1.ss,
                                [ui EXCEPT !.submitted = FALSE,
                                           !.new_calc = FALSE])
                    ELSE r1} :
            /\ cache' = r2.cache
            /\ session_state' = r2.ss
            /\ runs' = IF r1.log.end = "rerun" THEN << r1.log, r2.log >>
                       ELSE << r1.log >>

Last(s) == s[Len(s)]

----------------------------------------------------------------------------
(* Configuration documents the file may hold *)

Range(f) == {f[x] : x \in DOMAIN f}

Dicts(K, V) == UNION {[S -> V] : S \in SUBSET K}

Models(I, K, V) == {[intercept |-> i, coeffs |-> c] : i \in I, c \in Dicts(K, V)}

Weights == {Num(w) : w \in -MaxW..MaxW}

\* small intercepts, and the two next to the ends of the range of the
\* exponential
Intercepts ==
    {Num(-1), Num(0), Num(1), Num(1 - ExpOverflowArg), Num(SatEta - 1)}

BadNumbers == {Str("abc"), Str("nan")}

FixedLos == [intercept |-> Num(-1), coeffs |-> [age_ge70 |-> Num(1)]]

\* a document with a model for in-hospital death, and with none, a fixed one
\* or the same one for prolonged stay
Docs(M) ==
    {[outcomes |-> [death_in_hospital |-> m]] : m \in M}
    \cup {[outcomes |-> [death_in_hospital |-> m, prolonged_los |-> l]] :
              m \in M, l \in {FixedLos}}

PredictModels == Models(Intercepts, {"female", "age_ge70", "bmi"}, Weights)

AppModels ==
    Models(Intercepts, {"female"}, Weights \ {Num(0)})
    \cup Models({Num(0)} \cup BadNumbers, {"warm_month"},
                {Num(MaxW)} \cup BadNumbers)

EncodeDoc ==
    [outcomes |->
        [death_in_hospital |->
            [intercept |-> Num(-1),
             coeffs |-> [k \in {"female", "age_ge70", "warm_month",
                                "comorb_blood"} |-> Num(1)]],
         prolonged_los |-> FixedLos]]

OutcomeNames == {"death_in_hospital", "prolonged_los", "readmission"}

FeatureVectors == Dicts({"female", "age_ge70", "smoker"}, 0..MaxX)

\* the states of the six checkboxes in which only the first n may be ticked
Boxes(n) ==
    {[k \in ComorbKeys |-> k \in S] :
         S \in SUBSET {COMORB_LIST[i][2] : i \in 1..n}}

AgeSamples == {AgeCut - 1, AgeCut}
MonthSamples == {months[WarmFirst - 1], months[WarmFirst]}

----------------------------------------------------------------------------
(* The session flow.  The configuration file is what it is when the app    *)
(* starts and is not modified while it runs; one browser session is        *)
(* followed.                                                               *)

Init ==
    /\ file \in {Missing, NotJson} \cup {Json(d) : d \in Docs(AppModels)}
    /\ cache = NoCache
    /\ session_state = EmptyDict
    /\ primary_ckd = "Yes"
    /\ runs = << >>

\* the page is opened: the first run of the session, every widget at its
\* default
OpenPage ==
    /\ runs = << >>
    /\ Interact(session_state, Idle(primary_ckd))
    /\ UNCHANGED <<file, primary_ckd>>

\* the script is run again with the widgets as they are
Rerun ==
    /\ runs # << >>
    /\ Interact(session_state, Idle(primary_ckd))
    /\ UNCHANGED <<file, primary_ckd>>

\* the eligibility radio, shown by a run that reached line 118
SelectPrimary(p) ==
    /\ runs # << >>
    /\ Last(runs).view = "form"
    /\ p # primary_ckd
    /\ primary_ckd' = p
    /\ Interact(session_state, Idle(p))
    /\ UNCHANGED file

\* "Calculate risk", shown by a run that rendered the form
CanSubmit == runs # << >> /\ Last(runs).form

Submit(sex, age, admission_type, month_name, cb) ==
    /\ Interact(session_state,
                Ui(primary_ckd, TRUE, FALSE, sex, age, admission_type,
                   month_name, cb))
    /\ UNCHANGED <<file, primary_ckd>>

\* "New calculation", shown by a run of the results view
NewCalculation ==
    /\ runs # << >>
    /\ Last(runs).view = "results"
    /\ Interact(session_state,
                [Idle(primary_ckd) EXCEPT !.new_calc = TRUE])
    /\ UNCHANGED <<file, primary_ckd>>

SubmitSample ==
    /\ CanSubmit
    /\ \E sex \in Sexes, age \in AgeSamples,
          admission_type \in AdmissionTypes,
          month_name \in MonthSamples, cb \in Boxes(MaxBoxes) :
           Submit(sex, age, admission_type, month_name, cb)

Next ==
    \/ OpenPage
    \/ Rerun
    \/ \E p \in Answers : SelectPrimary(p)
    \/ SubmitSample
    \/ NewCalculation

Spec == Init /\ [][Next]_vars

----------------------------------------------------------------------------
(* The form over all its values, with one configuration *)

InitEncode ==
    /\ file = Json(EncodeDoc)
    /\ cache = NoCache
    /\ session_state = EmptyDict
    /\ primary_ckd = "Yes"
    /\ runs = << >>

SubmitAny ==
    /\ CanSubmit
    /\ \E sex \in Sexes, age \in age_options,
          admission_type \in AdmissionTypes,
          month_name \in MonthNames, cb \in Boxes(Len(COMORB_LIST)) :
           Submit(sex, age, admission_type, month_name, cb)

NextEncode ==
    \/ OpenPage
    \/ SubmitAny

SpecEncode == InitEncode /\ [][NextEncode]_vars

----------------------------------------------------------------------------
(* predict applied to any outcome name and feature mapping *)

InitPredict ==
    /\ file \in {Json([outcomes |-> [death_in_hospital |-> m,
                                      prolonged_los |-> FixedLos]]) :
                   m \in PredictModels}
    /\ cache = [hit |-> TRUE, val |-> file.doc]
    /\ session_state = EmptyDict
    /\ primary_ckd = "Yes"
    /\ runs = << >>

\* predict keeps no state: one application per behaviour covers every call
PredictCall(outcome, X) ==
    /\ runs = << >>
    /\ runs' = << [Log(Idle(primary_ckd)) EXCEPT
                      !.calls = << Call(outcome, X,
                                        predict(cache.val, outcome, X)) >>] >>
    /\ UNCHANGED <<file, cache, session_state, primary_ckd>>

NextPredict ==
    \E outcome \in OutcomeNames, X \in FeatureVectors : PredictCall(outcome, X)

SpecPredict == InitPredict /\ [][NextPredict]_vars

----------------------------------------------------------------------------
(* Properties *)

Runs == {runs[i] : i \in DOMAIN runs}

\* C1: a run of the form view whose eligibility answer is not "Yes" stops at
\* the gate: the form is not rendered, no feature vector is built, predict
\* is not called, and neither results nor show_results is assigned
C1_GateRefuses ==
    \A r \in Runs :
        (r.view = "form" /\ r.ui.primary_ckd # "Yes") =>
            /\ r.end = "stop"
            /\ r.gate = "stop"
            /\ ~r.form
            /\ r.features = << >>
            /\ r.calls = << >>
            /\ r.wrote \cap {"results", "show_results"} = {}

C1_Witness ==
    \E r \in Runs :
        /\ r.view = "form"
        /\ r.ui.primary_ckd = "No / Unsure"
        /\ r.end = "stop"
        /\ r.errors = << "not primary CKD" >>

Malformed(doc) ==
    \E o \in DOMAIN doc.outcomes :
        \/ doc.outcomes[o].intercept.t # "num"
        \/ \E k \in DOMAIN doc.outcomes[o].coeffs :
               doc.outcomes[o].coeffs[k].t # "num"

\* C7: a document with a malformed numeric field is rejected by load_cfg:
\* no run gets past the load, none renders the form or calls predict, and
\* the session never holds results
C7_MalformedRejectedAtLoad ==
    (file.kind = "json" /\ Malformed(file.doc)) =>
        /\ "results" \notin DOMAIN session_state
        /\ \A r \in Runs :
               /\ r.load # "ok"
               /\ ~r.form
               /\ r.calls = << >>

\* the view a session state selects (lines 110-114)
View(ss) == IF Get(ss, "show_results", FALSE) THEN "results" ELSE "form"

\* the predictions of a submit run, as the results dict
Predicted(r) == [death |-> r.calls[1].ret.p, los |-> r.calls[2].ret.p]

\* C9: the session is a two-state flow.  The first run of a session takes
\* the form view.  A step enters the results view only by a submit run that
\* passed the gate and whose two predictions are the results stored, and the
\* results view then displays these and the inputs of that submit.  A step
\* leaves the results view only by "New calculation", which leaves nothing
\* in the session but show_results = False.  Any other step from the results
\* view leaves the session state as it is.
C9_Flow ==
    /\ runs = << >> =>
           /\ View(session_state) = "form"
           /\ runs'[1].load = "ok" =>
                  (runs'[1].view = "form" /\ View(session_state') = "form")
    /\ (View(session_state) = "form" /\ View(session_state') = "results") =>
           /\ Len(runs') = 2
           /\ runs'[1].ui.submitted
           /\ runs'[1].gate = "pass"
           /\ Len(runs'[1].calls) = 2
           /\ \A i \in 1..2 : runs'[1].calls[i].ret.st = "ok"
           /\ "results" \in DOMAIN session_state'
           /\ session_state'["results"] = Predicted(runs'[1])
           /\ session_state'["input_summary"] = input_summary(runs'[1].ui)
           /\ runs'[2].view = "results"
           /\ runs'[2].shown[1].death = [fallback |-> FALSE,
                                         p |-> Predicted(runs'[1]).death]
           /\ runs'[2].shown[1].los = [fallback |-> FALSE,
                                       p |-> Predicted(runs'[1]).los]
           /\ runs'[2].shown[1].inputs = << input_summary(runs'[1].ui) >>
    /\ (View(session_state) = "results" /\ View(session_state') = "form") =>
           /\ runs'[1].ui.new_calc
           /\ runs'[1].cleared
           /\ session_state' = [show_results |-> FALSE]
           /\ Last(runs').view = "form"
    /\ (View(session_state) = "results" /\ View(session_state') = "results") =>
           /\ session_state' = session_state
           /\ \A r \in {runs'[i] : i \in DOMAIN runs'} :
                  /\ r.view = "results"
                  /\ r.shown[1].death.p = session_state["results"].death
                  /\ r.shown[1].los.p = session_state["results"].los

C9_TwoStateFlow == [][C9_Flow]_vars

\* "New calculation" has acted on a displayed calculation: the session is
\* cleared and the form view is back
C9_Witness ==
    /\ Len(runs) = 2
    /\ runs[1].view = "results"
    /\ ~runs[1].shown[1].death.fallback
    /\ runs[1].ui.new_calc
    /\ runs[1].cleared
    /\ runs[2].view = "form"
    /\ session_state = [show_results |-> FALSE]

\* the widget values an input summary was made from
UiOf(summary) ==
    Ui("Yes", TRUE, FALSE, summary.Sex, summary.Age, summary.AdmissionType,
       summary.AdmissionMonth,
       [k \in ComorbKeys |->
           \E i \in 1..Len(COMORB_LIST) :
               /\ COMORB_LIST[i][2] = k
               /\ COMORB_LIST[i][1] \in Range(summary.Comorbidities)])

\* death and los are what predict returns for the two outcomes on the
\* feature vector of the inputs in summary
FromOneSubmit(summary, death, los) ==
    LET f == features(UiOf(summary))
        d == predict(cache.val, "death_in_hospital", f)
        l == predict(cache.val, "prolonged_los", f)
    IN  /\ d.st = "ok" /\ d.p = death
        /\ l.st = "ok" /\ l.p = los

\* C10: whenever show_results is True the session holds results with both
\* keys and an input summary, the two results being predict's values for
\* the two outcomes on the one feature vector of the summarised inputs;
\* every run of the results view displays such a pair, never the fallback
C10_ResultsComplete ==
    /\ View(session_state) = "results" =>
           /\ {"results", "input_summary"} \subseteq DOMAIN session_state
           /\ DOMAIN session_state["results"] = {"death", "los"}
           /\ FromOneSubmit(session_state["input_summary"],
                            session_state["results"].death,
                            session_state["results"].los)
    /\ \A r \in Runs :
           r.view = "results" =>
               /\ ~r.shown[1].death.fallback
               /\ ~r.shown[1].los.fallback
               /\ r.shown[1].inputs # << >>
               /\ FromOneSubmit(r.shown[1].inputs[1], r.shown[1].death.p,
                                r.shown[1].los.p)

C10_Witness ==
    /\ View(session_state) = "results"
    /\ Last(runs).view = "results"
    /\ session_state["input_summary"].Comorbidities # << "None" >>
    /\ session_state["results"].death # session_state["results"].los

\* the calls of predict made directly
Calls == UNION {Range(r.calls) : r \in Runs}

Known(c) == c.outcome \in DOMAIN cache.val.outcomes

RECURSIVE Sum(_, _)
Sum(S, f) ==
    IF S = {} THEN 0
    ELSE LET k == CHOOSE x \in S : TRUE IN f[k] + Sum(S \ {k}, f)

\* intercept + the sum, over the keys of the model alone, of weight times
\* the value X gives the key, 0 when X does not have it
LinearPredictor(m, X) ==
    m.intercept.n
    + Sum(DOMAIN m.coeffs,
          [k \in DOMAIN m.coeffs |->
              m.coeffs[k].n * (IF k \in DOMAIN X THEN X[k] ELSE 0)])

\* C2: for an outcome of the table and any feature mapping, predict raises
\* no lookup or conversion error, evaluates one term per key of the model's
\* coeffs and its linear predictor is intercept + sum of coeffs[k] * X.get(k,
\* 0) over these keys: keys X lacks contribute 0, keys only X has are
\* ignored, and for the empty X it is the intercept
C2_LinearPredictor ==
    \A c \in Calls :
        Known(c) =>
            LET m == cache.val.outcomes[c.outcome] IN
            /\ c.ret.st \in {"ok", "OverflowError"}
            /\ c.ret.terms = Cardinality(DOMAIN m.coeffs)
            /\ c.ret.eta = Fl(LinearPredictor(m, c.X))
            /\ c.X = EmptyDict => c.ret.eta = Fl(m.intercept.n)

\* a call whose X lacks a weighted key of the model and has a key the model
\* does not weigh
C2_Witness ==
    \E c \in Calls :
        /\ Known(c)
        /\ c.ret.st = "ok"
        /\ \E k \in DOMAIN cache.val.outcomes[c.outcome].coeffs :
               /\ k \notin DOMAIN c.X
               /\ cache.val.outcomes[c.outcome].coeffs[k].n # 0
        /\ \E k \in DOMAIN c.X :
               /\ k \notin DOMAIN cache.val.outcomes[c.outcome].coeffs
               /\ c.X[k] # 0
        /\ c.ret.eta # Fl(cache.val.outcomes[c.outcome].intercept.n)

\* C3: predict with an outcome that is not in the table raises KeyError:
\* nothing is returned, no term is evaluated, and the table and the session
\* state are as they were
C3_UnknownOutcomeRaises ==
    \A c \in Calls :
        ~Known(c) =>
            /\ c.ret.st = "KeyError"
            /\ c.ret.p = NoP
            /\ c.ret.terms = 0
            /\ cache = [hit |-> TRUE, val |-> file.doc]
            /\ session_state = EmptyDict

C3_Witness ==
    \E c \in Calls :
        /\ c.outcome = "readmission"
        /\ c.X # EmptyDict
        /\ c.ret.st = "KeyError"

\* C5: for every finite linear predictor predict returns a value strictly
\* between 0 and 1 and does not raise OverflowError
C5_StrictlyInsideUnitInterval ==
    \A c \in Calls :
        (Known(c) /\ ~c.ret.eta.nan) =>
            /\ c.ret.st = "ok"
            /\ ~c.ret.p.nan
            /\ c.ret.p.q < SatEta

\* the table with the weight of k in the model of outcome o set to w
WithWeight(cfg, o, k, w) ==
    [cfg EXCEPT !.outcomes[o].coeffs[k] = Num(w)]

\* C6: with a feature k of the model set to 1, the result of predict moves
\* with the weight of k: against weight 0, a positive weight gives a strictly
\* larger result, a negative one a strictly smaller result, and a larger
\* weight never gives a smaller result
C6_MonotoneInWeight ==
    \A c \in Calls :
        Known(c) =>
            \A k \in DOMAIN cache.val.outcomes[c.outcome].coeffs :
                (k \in DOMAIN c.X /\ c.X[k] = 1) =>
                    LET w == cache.val.outcomes[c.outcome].coeffs[k].n
                        zero == predict(WithWeight(cache.val, c.outcome, k, 0),
                                        c.outcome, c.X)
                    IN  /\ c.ret.st = "ok"
                        /\ zero.st = "ok"
                        /\ w > 0 => c.ret.p.q > zero.p.q
                        /\ w < 0 => c.ret.p.q < zero.p.q
                        /\ w = 0 => c.ret.p.q = zero.p.q
                        /\ \A v \in -MaxW..MaxW :
                               LET other == predict(WithWeight(cache.val,
                                                c.outcome, k, v), c.outcome, c.X)
                               IN  (v >= w /\ other.st = "ok") =>
                                       other.p.q >= c.ret.p.q

\* C4: the feature vector built on submit has the ten keys, each 0 or 1:
\* female iff sex is "Female", age_ge70 iff age >= 70, scheduled_admission
\* iff the type is "Scheduled", warm_month iff the month is one of March to
\* August, and each comorbidity flag iff its own box is ticked
C4_FeatureEncoding ==
    \A r \in Runs :
        r.features # << >> =>
            LET f == r.features[1]
                u == r.ui
            IN  /\ Len(r.features) = 1
                /\ DOMAIN f = {"female", "age_ge70", "scheduled_admission",
                               "warm_month", "comorb_neoplasm", "comorb_blood",
                               "comorb_endocrine", "comorb_circulatory",
                               "comorb_respiratory", "comorb_digestive"}
                /\ \A k \in DOMAIN f : f[k] \in {0, 1}
                /\ f["female"] = 1 <=> u.sex = "Female"
                /\ f["age_ge70"] = 1 <=> u.age >= 70
                /\ f["scheduled_admission"] = 1 <=>
                       u.admission_type = "Scheduled"
                /\ f["warm_month"] = 1 <=>
                       u.month_name \in {"March", "April", "May", "June",
                                         "July", "August"}
                /\ \A k \in ComorbKeys : f[k] = 1 <=> u.cb[k]
                /\ \A i \in DOMAIN r.calls : r.calls[i].X = f

C4_Witness ==
    \E r \in Runs :
        /\ r.features # << >>
        /\ r.ui.month_name = "June"
        /\ r.ui.age = 70
        /\ r.ui.sex = "Male"
        /\ r.ui.cb["comorb_blood"] /\ r.ui.cb["comorb_digestive"]
        /\ ~r.ui.cb["comorb_neoplasm"]
        /\ r.features[1]["warm_month"] = 1

====
